---------------------------- MODULE Spec2Model ----------------------------
(***************************************************************************)
(* Model of process_users.py: read a CSV export with csv.DictReader, keep  *)
(* the last Department seen per trimmed AssignedTo value that is neither   *)
(* empty nor a status sentinel, then print "user,department" lines sorted. *)
(*                                                                         *)
(* Text is modelled as a sequence of code points (32 = space, 9 = tab,     *)
(* 44 = comma, 65.. = 'A'.., 97.. = 'a'..), so that strip(), string        *)
(* comparison and formatting are computed, not assumed.                    *)
(***************************************************************************)
EXTENDS Naturals, Sequences, FiniteSets

VARIABLES
    fileExists,  \* whether the hard-coded path can be opened
    rows,        \* what the reader yields for the file, record by record
    pc,          \* "start", "loop", "sort", "print", "done", "failed"
    fileOpen,    \* the file object f is open
    pos,         \* number of records the for-loop has fully processed
    users,       \* the dict `users`, as its items in insertion order
    lines,       \* the list built by sorted(users.items())
    idx,         \* number of items of `lines` the print loop has consumed
    output,      \* standard output, one formatted line per element
    err,         \* the exception that ended the run, or "none"
    second,      \* TRUE while the script is being run a second time
    prevOutput   \* standard output of the first run

vars == <<fileExists, rows, pc, fileOpen, pos, users, lines, idx, output,
          err, second, prevOutput>>

(* Largest number of records in the input file. *)
MaxRows == 2

-----------------------------------------------------------------------------
(* Values a DictReader record can hold: a str, or None (the reader's       *)
(* restval, filled in for every column a short row does not reach).        *)

Str(s) == [none |-> FALSE, s |-> s]

None == [none |-> TRUE, s |-> <<>>]

(* The literals of the membership test on line 12. *)
Sentinels == { <<>>,
               <<97, 99, 116, 105, 118, 101>>,          \* 'active'
               <<98, 114, 111, 107, 101, 110>>,         \* 'broken'
               <<114, 101, 116, 105, 114, 101, 100>> }  \* 'retired'

(* AssignedTo cells appearing in input files. *)
AssignedToValues ==
    { Str(<<>>),                                                \* ''
      Str(<<32, 9>>),                                           \* ' \t'
      Str(<<97, 99, 116, 105, 118, 101>>),                      \* 'active'
      Str(<<98, 114, 111, 107, 101, 110>>),                     \* 'broken'
      Str(<<32, 114, 101, 116, 105, 114, 101, 100, 32>>),       \* ' retired '
      Str(<<65, 99, 116, 105, 118, 101>>),                      \* 'Active'
      Str(<<97, 99, 116, 105, 118, 101, 32, 117, 115, 101, 114>>), \* 'active user'
      Str(<<65, 108>>),                                         \* 'Al'
      Str(<<32, 65, 108, 9>>),                                  \* ' Al\t'
      Str(<<66, 111, 98>>),                                     \* 'Bob'
      None }

(* Department cells appearing in input files. *)
DepartmentValues ==
    { Str(<<69, 110, 103>>),            \* 'Eng'
      Str(<<32, 79, 112, 115, 32>>),    \* ' Ops '
      Str(<<>>),                        \* ''
      None }

Columns == {"AssignedTo", "Department"}

ColumnValues(col) ==
    IF col = "AssignedTo" THEN AssignedToValues ELSE DepartmentValues

(* The dicts a DictReader can yield when the header holds the columns      *)
(* `fieldnames` (other columns of the export are never looked at).         *)
Records(fieldnames) ==
    { r \in [fieldnames -> AssignedToValues \cup DepartmentValues] :
        \A col \in fieldnames : r[col] \in ColumnValues(col) }

(* What iterating the reader meets: a record, or input on which next()     *)
(* raises (csv.Error, UnicodeDecodeError, an I/O error).                   *)
Entries(fieldnames) ==
    { [malformed |-> FALSE, row |-> r] : r \in Records(fieldnames) }
      \cup { [malformed |-> TRUE, row |-> [col \in fieldnames |-> None]] }

Files(fieldnames) ==
    UNION { [1..n -> Entries(fieldnames)] : n \in 0..MaxRows }

-----------------------------------------------------------------------------
(* str.isspace() for the code points below 256. *)
IsSpace(c) == c \in (9..13) \cup (28..32) \cup {133, 160}

RECURSIVE LStrip(_)
LStrip(s) ==
    IF s # <<>> /\ IsSpace(Head(s)) THEN LStrip(Tail(s)) ELSE s

RECURSIVE RStrip(_)
RStrip(s) ==
    IF s # <<>> /\ IsSpace(s[Len(s)])
    THEN RStrip(SubSeq(s, 1, Len(s) - 1))
    ELSE s

(* str.strip() *)
Strip(s) == RStrip(LStrip(s))

(* dict.get(key, default) *)
Get(row, key, default) == IF key \in DOMAIN row THEN row[key] ELSE default

(* str.__lt__: lexicographic on code points, a proper prefix is smaller. *)
StrLess(a, b) ==
    \E i \in 1..Len(b) :
        /\ i - 1 <= Len(a)
        /\ \A j \in 1..(i - 1) : a[j] = b[j]
        /\ \/ i = Len(a) + 1
           \/ i <= Len(a) /\ a[i] < b[i]

(* tuple.__lt__ on (user, dept) pairs. *)
TupleLess(p, q) ==
    \/ StrLess(p[1], q[1])
    \/ p[1] = q[1] /\ StrLess(p[2], q[2])

(* Stable insertion of x into an ascending list, as sorted() places it. *)
RECURSIVE Insert(_, _)
Insert(sortedItems, x) ==
    IF sortedItems = <<>> THEN <<x>>
    ELSE IF TupleLess(x, Head(sortedItems)) THEN <<x>> \o sortedItems
    ELSE <<Head(sortedItems)>> \o Insert(Tail(sortedItems), x)

RECURSIVE SortedFrom(_, _)
SortedFrom(acc, items) ==
    IF items = <<>> THEN acc
    ELSE SortedFrom(Insert(acc, Head(items)), Tail(items))

(* Variant: the items in dict order, not sorted. *)
Unsorted(items) == items

(* sorted(users.items()) *)
Sorted(items) == SortedFrom(<<>>, items)

DictKeys(d) == { d[i][1] : i \in 1..Len(d) }

(* Variant: an existing key keeps its first value. *)
DictSetFirstWins(d, k, v) ==
    IF k \in DictKeys(d) THEN d ELSE Append(d, <<k, v>>)

(* users[k] = v : overwrite in place, or insert at the end. *)
DictSet(d, k, v) ==
    IF k \in DictKeys(d)
    THEN [i \in 1..Len(d) |-> IF d[i][1] = k THEN <<k, v>> ELSE d[i]]
    ELSE Append(d, <<k, v>>)

(* f"{user},{dept}" *)
Format(user, dept) == user \o <<44>> \o dept

-----------------------------------------------------------------------------
Init ==
    /\ fileExists \in BOOLEAN
    /\ \E fieldnames \in SUBSET Columns :
          rows \in IF fileExists THEN Files(fieldnames) ELSE {<<>>}
    /\ pc = "start"
    /\ fileOpen = FALSE
    /\ pos = 0
    /\ users = <<>>
    /\ lines = <<>>
    /\ idx = 0
    /\ output = <<>>
    /\ err = "none"
    /\ second = FALSE
    /\ prevOutput = <<>>

(* open(...) succeeds; DictReader(f) reads nothing yet. *)
OpenFile ==
    /\ pc = "start"
    /\ fileExists
    /\ fileOpen' = TRUE
    /\ pc' = "loop"
    /\ UNCHANGED <<fileExists, rows, pos, users, lines, idx, output, err,
                   second, prevOutput>>

(* open(...) raises: the with-block is never entered. *)
OpenFails ==
    /\ pc = "start"
    /\ ~fileExists
    /\ pc' = "failed"
    /\ err' = "FileError"
    /\ UNCHANGED <<fileExists, rows, fileOpen, pos, users, lines, idx,
                   output, second, prevOutput>>

Cur == rows[pos + 1]

assigned_to_raw == Get(Cur.row, "AssignedTo", Str(<<>>))

department_raw == Get(Cur.row, "Department", Str(<<>>))

HasRecord == pc = "loop" /\ pos < Len(rows) /\ ~Cur.malformed

(* The test of line 12. *)
Keeps(assigned_to) == assigned_to # <<>> /\ assigned_to \notin Sentinels

(* Variant: the file is not closed when the reader raises. *)
ReaderRaisesOpen ==
    /\ pc = "loop"
    /\ pos < Len(rows)
    /\ Cur.malformed
    /\ pc' = "failed"
    /\ err' = "FormatError"
    /\ UNCHANGED <<fileExists, rows, fileOpen, pos, users, lines, idx,
                   output, second, prevOutput>>

(* next(reader) raises inside the with-block, which closes f on the way out. *)
ReaderRaises ==
    /\ pc = "loop"
    /\ pos < Len(rows)
    /\ Cur.malformed
    /\ fileOpen' = FALSE
    /\ pc' = "failed"
    /\ err' = "FormatError"
    /\ UNCHANGED <<fileExists, rows, pos, users, lines, idx, output,
                   second, prevOutput>>

(* .strip() is called on None: AttributeError leaves the with-block. *)
StripRaises ==
    /\ HasRecord
    /\ assigned_to_raw.none \/ department_raw.none
    /\ fileOpen' = FALSE
    /\ pc' = "failed"
    /\ err' = "AttributeError"
    /\ UNCHANGED <<fileExists, rows, pos, users, lines, idx, output,
                   second, prevOutput>>

SkipRow ==
    /\ HasRecord
    /\ ~assigned_to_raw.none /\ ~department_raw.none
    /\ ~Keeps(Strip(assigned_to_raw.s))
    /\ pos' = pos + 1
    /\ UNCHANGED <<fileExists, rows, pc, fileOpen, users, lines, idx,
                   output, err, second, prevOutput>>

(* Variant: the line is printed as soon as the row is stored. *)
StoreRowPrinting ==
    /\ HasRecord
    /\ ~assigned_to_raw.none /\ ~department_raw.none
    /\ Keeps(Strip(assigned_to_raw.s))
    /\ users' = DictSet(users, Strip(assigned_to_raw.s), Strip(department_raw.s))
    /\ output' = Append(output, Format(Strip(assigned_to_raw.s),
                                       Strip(department_raw.s)))
    /\ pos' = pos + 1
    /\ UNCHANGED <<fileExists, rows, pc, fileOpen, lines, idx, err,
                   second, prevOutput>>

StoreRow ==
    /\ HasRecord
    /\ ~assigned_to_raw.none /\ ~department_raw.none
    /\ Keeps(Strip(assigned_to_raw.s))
    /\ users' = DictSet(users, Strip(assigned_to_raw.s), Strip(department_raw.s))
    /\ pos' = pos + 1
    /\ UNCHANGED <<fileExists, rows, pc, fileOpen, lines, idx, output, err,
                   second, prevOutput>>

(* The reader is exhausted: the with-block ends and closes f. *)
EndOfFile ==
    /\ pc = "loop"
    /\ pos = Len(rows)
    /\ fileOpen' = FALSE
    /\ pc' = "sort"
    /\ UNCHANGED <<fileExists, rows, pos, users, lines, idx, output, err,
                   second, prevOutput>>

IsPermutation(p, items) ==
    /\ Len(p) = Len(items)
    /\ \A i \in 1..Len(items) : \E j \in 1..Len(p) : p[j] = items[i]

(* Variant: the items are reported in an arbitrary order. *)
SortItemsAnyOrder ==
    /\ pc = "sort"
    /\ \E p \in [1..Len(users) -> DictKeys(users) \X { users[i][2] : i \in 1..Len(users) }] :
          /\ IsPermutation(p, users)
          /\ lines' = p
    /\ idx' = 0
    /\ pc' = "print"
    /\ UNCHANGED <<fileExists, rows, fileOpen, pos, users, output, err,
                   second, prevOutput>>

(* sorted(users.items()) is evaluated once, before the first print. *)
SortItems ==
    /\ pc = "sort"
    /\ lines' = Sorted(users)
    /\ idx' = 0
    /\ pc' = "print"
    /\ UNCHANGED <<fileExists, rows, fileOpen, pos, users, output, err,
                   second, prevOutput>>

PrintLine ==
    /\ pc = "print"
    /\ idx < Len(lines)
    /\ output' = Append(output, Format(lines[idx + 1][1], lines[idx + 1][2]))
    /\ idx' = idx + 1
    /\ UNCHANGED <<fileExists, rows, pc, fileOpen, pos, users, lines, err,
                   second, prevOutput>>

Finish ==
    /\ pc = "print"
    /\ idx = Len(lines)
    /\ pc' = "done"
    /\ UNCHANGED <<fileExists, rows, fileOpen, pos, users, lines, idx,
                   output, err, second, prevOutput>>

Next ==
    \/ OpenFile
    \/ OpenFails
    \/ ReaderRaises
    \/ StripRaises
    \/ SkipRow
    \/ StoreRow
    \/ EndOfFile
    \/ SortItems
    \/ PrintLine
    \/ Finish

Spec == Init /\ [][Next]_vars

(* The script is started again on the unchanged file: a fresh process. *)
RunAgain ==
    /\ pc \in {"done", "failed"}
    /\ ~second
    /\ second' = TRUE
    /\ prevOutput' = output
    /\ pc' = "start"
    /\ fileOpen' = FALSE
    /\ pos' = 0
    /\ users' = <<>>
    /\ lines' = <<>>
    /\ idx' = 0
    /\ output' = <<>>
    /\ err' = "none"
    /\ UNCHANGED <<fileExists, rows>>

NextTwice == Next \/ RunAgain

SpecTwice == Init /\ [][NextTwice]_vars


(* The interpreter runs the script step by step until it ends. *)
FairSpec == Spec /\ WF_vars(Next)

-----------------------------------------------------------------------------
(* Vocabulary of the properties.                                           *)

(* The text of a column of record i, an absent cell read as ''. *)
FieldText(i, col) == Get(rows[i].row, col, Str(<<>>)).s

Key(i) == Strip(FieldText(i, "AssignedTo"))

Dept(i) == Strip(FieldText(i, "Department"))

(* Record i names a user: trimmed AssignedTo neither '' nor a sentinel. *)
Survives(i) == ~rows[i].malformed /\ Key(i) \notin Sentinels

(* The last record among the first n that names user k (0 if none). *)
LastFor(k, n) ==
    LET S == { i \in 1..n : Survives(i) /\ Key(i) = k }
    IN  IF S = {} THEN 0 ELSE CHOOSE i \in S : \A j \in S : j <= i

(* The user name of a printed line: the text before its first comma. *)
LineUser(line) ==
    LET c == CHOOSE i \in 1..Len(line) :
                 line[i] = 44 /\ \A j \in 1..(i - 1) : line[j] # 44
    IN  SubSeq(line, 1, c - 1)

LinesFor(k) == { j \in 1..Len(output) : LineUser(output[j]) = k }

Ended == pc \in {"done", "failed"}

(* The file opens and the reader parses every record of it. *)
Readable == fileExists /\ \A i \in 1..Len(rows) : ~rows[i].malformed

(* No record has a cell the reader filled with None. *)
NoShortRow ==
    \A i \in 1..Len(rows) :
        rows[i].malformed \/ \A col \in DOMAIN rows[i].row : ~rows[i].row[col].none

ValueOf(d, k) == LET n == CHOOSE n \in 1..Len(d) : d[n][1] = k IN d[n][2]

Trimmed(s) == s = <<>> \/ (~IsSpace(s[1]) /\ ~IsSpace(s[Len(s)]))

-----------------------------------------------------------------------------
(* C1: processing a record whose AssignedTo cell, trimmed, is '', 'active', *)
(* 'broken' or 'retired' changes nothing but the reader's position: the    *)
(* map is left as it was and the pass goes on, so the output is that of    *)
(* the input without the record.                                           *)
C1_FilteredRowContributesNothing ==
    [][ (HasRecord /\ ~assigned_to_raw.none /\ Key(pos + 1) \in Sentinels)
          => (users' = users /\ pc' = "loop" /\ pos' = pos + 1 /\ err' = "none")
      ]_vars

(* C1 on files in which no record is short of a cell. *)
C1_WhenNoShortRow ==
    [][ (NoShortRow /\ HasRecord /\ ~assigned_to_raw.none /\ Key(pos + 1) \in Sentinels)
          => (users' = users /\ pc' = "loop" /\ pos' = pos + 1 /\ err' = "none")
      ]_vars

(* C2: when the file was readable, the output of the ended run holds, for  *)
(* every record that names a user, exactly one line for that user, and it  *)
(* carries the trimmed Department of the last record naming that user.     *)
LastRowWins ==
    \A i \in 1..Len(rows) :
        Survives(i) =>
            /\ Cardinality(LinesFor(Key(i))) = 1
            /\ \E j \in 1..Len(output) :
                  output[j] = Format(Key(i), Dept(LastFor(Key(i), Len(rows))))

C2_LastRowWins == (Ended /\ Readable) => LastRowWins

(* C2 on files in which no record is short of a cell. *)
C2_WhenNoShortRow == (Ended /\ Readable /\ NoShortRow) => LastRowWins

(* C3: the printed lines are strictly ascending by user name (so no name   *)
(* is printed twice), and the list sorted as (user, dept) pairs is         *)
(* strictly ascending by user alone.                                       *)
C3_OutputStrictlySorted ==
    /\ \A j, k \in 1..Len(output) :
          j < k => StrLess(LineUser(output[j]), LineUser(output[k]))
    /\ \A j, k \in 1..Len(lines) : j < k => StrLess(lines[j][1], lines[k][1])

C3_Witness ==
    /\ pc = "done"
    /\ Len(output) >= 2
    /\ StrLess(users[2][1], users[1][1])

(* C4: a line is printed only after every record was consumed without      *)
(* error; a failed run has printed nothing, a completed one every entry.   *)
C4_AllOrNothing ==
    /\ output # <<>> => (pc \in {"print", "done"} /\ pos = Len(rows) /\ err = "none")
    /\ pc = "failed" => output = <<>>
    /\ pc = "done" => Len(output) = Len(users)

C4_Witness ==
    /\ pc = "failed"
    /\ err = "FormatError"
    /\ users # <<>>
    /\ output = <<>>

(* C5: processing a record never fails, also when a cell is absent: the    *)
(* absent cell counts as '', and the record is skipped or stored.          *)
C5_FilterNeverFails ==
    [][ HasRecord =>
          /\ pc' = "loop" /\ pos' = pos + 1 /\ err' = "none"
          /\ users' = IF Key(pos + 1) \in Sentinels
                      THEN users
                      ELSE DictSet(users, Key(pos + 1), Dept(pos + 1))
      ]_vars

(* C6: when the file was readable, a record's trimmed AssignedTo has a     *)
(* line in the output of the ended run exactly when it is not one of '',   *)
(* 'active', 'broken', 'retired', compared exactly and case-sensitively.   *)
ExactSentinelMatch ==
    \A i \in 1..Len(rows) :
        ~rows[i].malformed =>
            (LinesFor(Key(i)) # {}
               <=> Key(i) \notin { <<>>,
                                   <<97, 99, 116, 105, 118, 101>>,
                                   <<98, 114, 111, 107, 101, 110>>,
                                   <<114, 101, 116, 105, 114, 101, 100>> })

C6_ExactSentinelMatch == (Ended /\ Readable) => ExactSentinelMatch

(* C6 on files in which no record is short of a cell. *)
C6_WhenNoShortRow == (Ended /\ Readable /\ NoShortRow) => ExactSentinelMatch

C8_FileAlwaysClosed ==
    /\ [](fileOpen => (pc = "loop" /\ output = <<>>))
    /\ [](Ended => ~fileOpen)
    /\ (fileOpen ~> ~fileOpen)

C8_Witness ==
    /\ pc = "failed"
    /\ err \in {"FormatError", "AttributeError"}
    /\ pos >= 1
    /\ ~fileOpen

(* C9: after any prefix of the records, every key of the map is non-empty, *)
(* trimmed, not a sentinel and unique, and its value is the trimmed        *)
(* Department of the last processed record naming it; processing a record  *)
(* touches no entry but the one of its own key.                            *)
MapOk ==
    \A n \in 1..Len(users) :
        LET k == users[n][1] IN
        /\ k # <<>> /\ Trimmed(k)
        /\ k \notin Sentinels
        /\ \A m \in 1..Len(users) : users[m][1] = k => m = n
        /\ LastFor(k, pos) # 0
        /\ users[n][2] = Dept(LastFor(k, pos))
        /\ Trimmed(users[n][2])

OnlyOwnKey ==
    HasRecord =>
        /\ \A k \in DictKeys(users) :
              k # Key(pos + 1) =>
                  (k \in DictKeys(users') /\ ValueOf(users', k) = ValueOf(users, k))
        /\ DictKeys(users') \subseteq DictKeys(users) \cup {Key(pos + 1)}

C9_MapInvariant == []MapOk /\ [][OnlyOwnKey]_vars

C9_Witness ==
    /\ pos = 2
    /\ Len(users) = 1
    /\ Survives(1) /\ Survives(2)
    /\ Dept(1) # Dept(2)
    /\ users[1][2] = Dept(2)

(* C10: when the file was readable, the ended run has printed as many      *)
(* lines as there are distinct trimmed user names in the input, and        *)
(* records whose AssignedTo differ only in surrounding whitespace share    *)
(* one line, with the Department of the last of them.                      *)
WhitespaceVariantsCollapse ==
    /\ Len(output) = Cardinality({ Key(i) : i \in { n \in 1..Len(rows) : Survives(n) } })
    /\ \A i, k \in 1..Len(rows) :
          (Survives(i) /\ Survives(k) /\ i < k /\ Key(i) = Key(k)
             /\ FieldText(i, "AssignedTo") # FieldText(k, "AssignedTo")
             /\ LastFor(Key(i), Len(rows)) = k)
          => /\ Cardinality(LinesFor(Key(i))) = 1
             /\ \A j \in LinesFor(Key(i)) : output[j] = Format(Key(k), Dept(k))

C10_WhitespaceVariantsCollapse == (Ended /\ Readable) => WhitespaceVariantsCollapse

(* C10 on files in which no record is short of a cell. *)
C10_WhenNoShortRow == (Ended /\ Readable /\ NoShortRow) => WhitespaceVariantsCollapse

=============================================================================
